---- MODULE Spec2Model ----
(***************************************************************************)
(* Model of the inference service of amazon-ltsm-yfinance:                 *)
(*   app/model_loader.py  - the artifact cache (module globals)            *)
(*   app/inference.py     - InferencePipeline.predict and its stages       *)
(*   api/index.py         - the /predict handler                           *)
(*   app/monitoring.py    - the request metrics the handlers update        *)
(*   app/schemas.py       - the request schema                             *)
(* Callers are threads; every step of a thread is one line (or one read or *)
(* write of a module global) of the Python source, named by its line.      *)
(***************************************************************************)
EXTENDS Integers, Sequences, FiniteSets, TLC

\* ------------------------------------------------------------------ bounds
NThreads == 2
MaxReads == 2
MaxSeqReads == 3
MaxClears == 1
MaxEnvChanges == 1
MaxExtra == 1
MaxErrors == 2
MaxRequests == 2

\* ------------------------------------------------------- program constants
\* settings.LOOKBACK (default 60) and the schema's min_length (60), both
\* scaled to the same small value.
LOOKBACK == 2
MIN_LENGTH == 2
\* csv_parser.py, line 66: the least number of rows (60), scaled like LOOKBACK.
CSV_MIN_ROWS == 2
\* inference.py, lines 153 and 156: the column that carries the prediction (index 3,
\* counted from 1 here).
TARGET_COLUMN == 4

Threads == 1..NThreads

VARIABLES
    model_cache,     \* model_loader._model_cache
    scaler_cache,    \* model_loader._scaler_cache
    load_attempted,  \* model_loader._load_attempted
    modelStorage,    \* what settings.MODEL_PATH holds
    scalerStorage,   \* what settings.SCALER_PATH holds
    settings,        \* settings.FEATURES and settings.TARGET, read from the environment
    modelReads,      \* storage accesses made for the model (history)
    scalerReads,     \* storage accesses made for the scaler (history)
    metrics,         \* monitoring.metrics.metrics
    hist,            \* history: failures since the last reset, resets, storage changes
    pc,              \* per thread: the line it is at
    stack,           \* per thread: the call sites it will return to
    op,              \* per thread: the operation it was asked to run
    data,            \* per thread: the records passed to predict
    local,           \* per thread: local variables of the running functions
    res,             \* per thread: the outcome of its last operation
    call,            \* per thread: history of the running (or last) operation
    snap             \* history: the cache and the storage when a sequential caller started

vars == <<model_cache, scaler_cache, load_attempted, modelStorage, scalerStorage,
          settings, modelReads, scalerReads, metrics, hist, pc, stack, op, data, local,
          res, call, snap>>

cacheVars == <<model_cache, scaler_cache, load_attempted>>
envVars == <<modelStorage, scalerStorage, settings>>

\* ----------------------------------------------------------- configuration
\* settings.MODEL_VERSION (default).
MODEL_VERSION == "1.0"

\* settings.FEATURES and settings.TARGET (defaults).
DefaultSettings ==
    [FEATURES |-> <<"open", "high", "low", "close", "volume">>, TARGET |-> "close"]

\* Deployments: the default one, one with the target first, one without the volume
\* column, one that predicts the opening price.
Configurations ==
    { DefaultSettings,
      [FEATURES |-> <<"close", "open", "high", "low", "volume">>, TARGET |-> "close"],
      [FEATURES |-> <<"open", "high", "low", "close">>, TARGET |-> "close"],
      [FEATURES |-> <<"open", "high", "low", "close", "volume">>, TARGET |-> "open"] }

\* InferencePipeline.__init__, line 23.
N_FEATURES == Len(settings.FEATURES)

\* ---------------------------------------------------------------- values
\* A loaded artifact: id tells two loaded objects apart (the number of the storage
\* access that produced it), kind is what the file held.
None == [id |-> 0, kind |-> "none"]
Handle(n, k) == [id |-> n, kind |-> k]

ModelFiles == {"ok", "missing", "corrupt"}
\* "narrow": a well-formed scaler fitted on fewer columns than the pipeline extracts.
ScalerFiles == {"ok", "narrow", "missing", "corrupt"}

NoExc == [type |-> "none", msg |-> "none", cause |-> "none"]
Exc(ty, m, c) == [type |-> ty, msg |-> m, cause |-> c]

\* What a function returns: a handle (val), a pair of handles (val, val2), a
\* PredictionResponse (prediction, model_version) or a list of candles.
NoVal == [val |-> None, val2 |-> None, prediction |-> 0, model_version |-> "none",
          candles |-> <<>>]
Val(h) == [NoVal EXCEPT !.val = h]

NoLocal == [obj |-> None, exc |-> NoExc, ret |-> NoVal, model |-> None, X |-> <<>>,
            pred |-> 0]
NoRes == [status |-> "none", exc |-> NoExc, ret |-> NoVal, http |-> 0]
NoCall == [mreads |-> 0, sreads |-> 0, acc |-> 0, att |-> 0, stage |-> 0,
           window |-> <<>>, tensor |-> <<>>, stages |-> <<>>, calls |-> <<>>,
           log |-> <<>>]
NoSnap == [mfailed |-> FALSE, sfailed |-> FALSE, mc0 |-> None, sc0 |-> None,
           ms0 |-> "ok", ss0 |-> "ok", la0 |-> FALSE]

\* ------------------------------------------------------------ control flow
Last(s) == s[Len(s)]
Front(s) == SubSeq(s, 1, Len(s) - 1)

\* Where a call made at a call site continues when the callee returns.
ReturnTo(site) ==
    CASE site = "lms121" -> "lms122"
      [] site = "lms122" -> "lms123"
      [] site \in {"sf96", "sf96w"} -> "sf97"
      [] site \in {"pr132", "pr132w"} -> "pr133"
      [] site = "dn150" -> "dn152"
      [] site = "h173" -> "h181"
      [] site = "h181" -> "h183"
      [] site = "ls53" -> "ls55"

\* Where an exception raised by the callee of a call site is caught.
CatchAt(site) ==
    CASE site \in {"lms121", "lms122"} -> "lms124"
      [] site \in {"sf96", "pr132", "dn150"} -> "p198"
      [] site = "sf96w" -> "ts104"
      [] site = "pr132w" -> "tm104"
      [] site = "h173" -> "h174"
      [] site = "h181" -> "h192"
      [] site = "ls53" -> "ls69"

Idle(t) == pc[t] \in {"idle", "done"}

Goto(t, l) == pc' = [pc EXCEPT ![t] = l]

Jump(t, l) == Goto(t, l) /\ UNCHANGED <<stack, local, res>>

JumpL(t, l, loc) ==
    /\ Goto(t, l)
    /\ local' = [local EXCEPT ![t] = loc]
    /\ UNCHANGED <<stack, res>>

CallFn(t, site, entry) ==
    /\ Goto(t, entry)
    /\ stack' = [stack EXCEPT ![t] = Append(@, site)]
    /\ UNCHANGED <<local, res>>

Return(t, v) ==
    IF stack[t] = <<>>
    THEN /\ Goto(t, "done")
         /\ res' = [res EXCEPT ![t] = [NoRes EXCEPT !.status = "returned", !.ret = v]]
         /\ local' = [local EXCEPT ![t] = NoLocal]
         /\ UNCHANGED stack
    ELSE /\ Goto(t, ReturnTo(Last(stack[t])))
         /\ stack' = [stack EXCEPT ![t] = Front(@)]
         /\ local' = [local EXCEPT ![t].ret = v, ![t].obj = None, ![t].exc = NoExc]
         /\ UNCHANGED res

Raise(t, e) ==
    IF stack[t] = <<>>
    THEN /\ Goto(t, "done")
         /\ res' = [res EXCEPT ![t] = [NoRes EXCEPT !.status = "raised", !.exc = e]]
         /\ local' = [local EXCEPT ![t] = NoLocal]
         /\ UNCHANGED stack
    ELSE /\ Goto(t, CatchAt(Last(stack[t])))
         /\ stack' = [stack EXCEPT ![t] = Front(@)]
         /\ local' = [local EXCEPT ![t].exc = e, ![t].obj = None]
         /\ UNCHANGED res

\* A caller starts operation o at its first line.
Begin(t, o, d, entry) ==
    /\ Idle(t)
    /\ Goto(t, entry)
    /\ op' = [op EXCEPT ![t] = o]
    /\ data' = [data EXCEPT ![t] = d]
    /\ stack' = [stack EXCEPT ![t] = <<>>]
    /\ local' = [local EXCEPT ![t] = NoLocal]
    /\ res' = [res EXCEPT ![t] = NoRes]
    /\ call' = [call EXCEPT ![t] = NoCall]
    /\ UNCHANGED <<cacheVars, envVars, modelReads, scalerReads, metrics, hist>>

\* The operation runs the pipeline as it is defined, with its track_time
\* decorators; "predict_plain" is the same pipeline with the decorators taken off.
Wrapped(t) == op[t] # "predict_plain"

Via(t, wrapper, plain) == IF Wrapped(t) THEN wrapper ELSE plain

\* ------------------------------------------------------------ model_loader
is_model_loaded == model_cache # None

is_scaler_loaded == scaler_cache # None


\* Mutant of gm32: the cache check of line 32 is missing.
gm32_NoCacheCheck(t) ==
    /\ pc[t] = "gm32"
    /\ Jump(t, "gm35")
    /\ UNCHANGED <<cacheVars, envVars, modelReads, scalerReads, metrics, hist, op, data, call, snap>>

\* get_model, line 32: the cached model is returned without any storage access.
gm32(t) ==
    /\ pc[t] = "gm32"
    /\ IF model_cache # None THEN Return(t, Val(model_cache)) ELSE Jump(t, "gm35")
    /\ UNCHANGED <<cacheVars, envVars, modelReads, scalerReads, metrics, hist, op, data, call, snap>>

\* get_model, lines 35-39: a load is marked as attempted and no model is cached.
gm35(t) ==
    /\ pc[t] = "gm35"
    /\ IF load_attempted
       THEN Raise(t, Exc("RuntimeError", "previous_load_failed", "none"))
       ELSE Jump(t, "gm41")
    /\ UNCHANGED <<cacheVars, envVars, modelReads, scalerReads, metrics, hist, op, data, call, snap>>

\* get_model, line 41.
gm41(t) ==
    /\ pc[t] = "gm41"
    /\ load_attempted' = TRUE
    /\ Jump(t, "gm49")
    /\ UNCHANGED <<model_cache, scaler_cache, envVars, modelReads, scalerReads, metrics,
                   hist, op, data, call, snap>>

\* get_model, lines 49-52: MODEL_PATH.exists(), the first storage access of a load.
gm49(t) ==
    /\ pc[t] = "gm49"
    /\ modelReads' = modelReads + 1
    /\ call' = [call EXCEPT ![t].mreads = @ + 1, ![t].att = modelReads + 1]
    /\ IF modelStorage = "missing"
       THEN JumpL(t, "gm66", [local[t] EXCEPT !.exc = Exc("FileNotFoundError", "model", "none")])
       ELSE Jump(t, "gm55")
    /\ UNCHANGED <<cacheVars, envVars, scalerReads, metrics, hist, op, data, snap>>

\* get_model, line 55, right-hand side: tf.keras.models.load_model reads the file.
gm55(t) ==
    /\ pc[t] = "gm55"
    /\ IF modelStorage = "ok"
       THEN JumpL(t, "gm55s", [local[t] EXCEPT !.obj = Handle(call[t].att, "ok")])
       ELSE JumpL(t, "gm66", [local[t] EXCEPT !.exc = Exc("OSError", "model", "none")])
    /\ UNCHANGED <<cacheVars, envVars, modelReads, scalerReads, metrics, hist, op, data, call, snap>>

\* get_model, line 55, the store to the global.
gm55s(t) ==
    /\ pc[t] = "gm55s"
    /\ model_cache' = local[t].obj
    /\ Jump(t, "gm57")
    /\ UNCHANGED <<scaler_cache, load_attempted, envVars, modelReads, scalerReads, metrics,
                   hist, op, data, call, snap>>

\* get_model, lines 57-60: the log line reads _model_cache.input_shape.
gm57(t) ==
    /\ pc[t] = "gm57"
    /\ IF model_cache = None
       THEN JumpL(t, "gm66", [local[t] EXCEPT !.exc = Exc("AttributeError", "model", "none")])
       ELSE Jump(t, "gm62")
    /\ UNCHANGED <<cacheVars, envVars, modelReads, scalerReads, metrics, hist, op, data, call, snap>>

\* get_model, line 62: return _model_cache (the global is read again).
gm62(t) ==
    /\ pc[t] = "gm62"
    /\ Return(t, Val(model_cache))
    /\ UNCHANGED <<cacheVars, envVars, modelReads, scalerReads, metrics, hist, op, data, call, snap>>

\* get_model, line 66.
gm66(t) ==
    /\ pc[t] = "gm66"
    /\ model_cache' = None
    /\ Jump(t, "gm67")
    /\ UNCHANGED <<scaler_cache, load_attempted, envVars, modelReads, scalerReads, metrics,
                   hist, op, data, call, snap>>

\* Mutant of gm67: the failed attempt stays marked.
gm67_KeepsLatch(t) ==
    /\ pc[t] = "gm67"
    /\ Jump(t, "gm68")
    /\ UNCHANGED <<cacheVars, envVars, modelReads, scalerReads, metrics, hist, op, data, call, snap>>

\* get_model, line 67.
gm67(t) ==
    /\ pc[t] = "gm67"
    /\ load_attempted' = FALSE
    /\ Jump(t, "gm68")
    /\ UNCHANGED <<model_cache, scaler_cache, envVars, modelReads, scalerReads, metrics,
                   hist, op, data, call, snap>>

\* get_model, line 68.
gm68(t) ==
    /\ pc[t] = "gm68"
    /\ hist' = [hist EXCEPT !.modelFailed = TRUE]
    /\ Raise(t, Exc("RuntimeError", "model_load_failed", local[t].exc.type))
    /\ UNCHANGED <<cacheVars, envVars, modelReads, scalerReads, metrics, op, data, call, snap>>

get_model(t) ==
    \/ gm32(t) \/ gm35(t) \/ gm41(t) \/ gm49(t) \/ gm55(t) \/ gm55s(t)
    \/ gm57(t) \/ gm62(t) \/ gm66(t) \/ gm67(t) \/ gm68(t)

\* Mutant of gs83: a failed scaler load is latched the way line 35 means to latch
\* the model's.
gs83_Latched(t) ==
    /\ pc[t] = "gs83"
    /\ IF scaler_cache # None THEN Return(t, Val(scaler_cache))
       ELSE IF hist.scalerFailed
       THEN Raise(t, Exc("RuntimeError", "previous_load_failed", "none"))
       ELSE Jump(t, "gs89")
    /\ UNCHANGED <<cacheVars, envVars, modelReads, scalerReads, metrics, hist, op, data, call, snap>>

\* get_scaler, line 83.
gs83(t) ==
    /\ pc[t] = "gs83"
    /\ IF scaler_cache # None THEN Return(t, Val(scaler_cache)) ELSE Jump(t, "gs89")
    /\ UNCHANGED <<cacheVars, envVars, modelReads, scalerReads, metrics, hist, op, data, call, snap>>

\* get_scaler, lines 89-92: SCALER_PATH.exists().
gs89(t) ==
    /\ pc[t] = "gs89"
    /\ scalerReads' = scalerReads + 1
    /\ call' = [call EXCEPT ![t].sreads = @ + 1, ![t].att = scalerReads + 1]
    /\ IF scalerStorage = "missing"
       THEN JumpL(t, "gs106", [local[t] EXCEPT !.exc = Exc("FileNotFoundError", "scaler", "none")])
       ELSE Jump(t, "gs95")
    /\ UNCHANGED <<cacheVars, envVars, modelReads, metrics, hist, op, data, snap>>

\* get_scaler, line 95, right-hand side: joblib.load reads the file.
gs95(t) ==
    /\ pc[t] = "gs95"
    /\ IF scalerStorage \in {"ok", "narrow"}
       THEN JumpL(t, "gs95s", [local[t] EXCEPT !.obj = Handle(call[t].att, scalerStorage)])
       ELSE JumpL(t, "gs106", [local[t] EXCEPT !.exc = Exc("OSError", "scaler", "none")])
    /\ UNCHANGED <<cacheVars, envVars, modelReads, scalerReads, metrics, hist, op, data, call, snap>>

\* get_scaler, line 95, the store to the global.
gs95s(t) ==
    /\ pc[t] = "gs95s"
    /\ scaler_cache' = local[t].obj
    /\ Jump(t, "gs102")
    /\ UNCHANGED <<model_cache, load_attempted, envVars, modelReads, scalerReads, metrics,
                   hist, op, data, call, snap>>

\* get_scaler, line 102: return _scaler_cache (the log line before it, with
\* getattr's default, cannot fail).
gs102(t) ==
    /\ pc[t] = "gs102"
    /\ Return(t, Val(scaler_cache))
    /\ UNCHANGED <<cacheVars, envVars, modelReads, scalerReads, metrics, hist, op, data, call, snap>>

\* get_scaler, line 106.
gs106(t) ==
    /\ pc[t] = "gs106"
    /\ scaler_cache' = None
    /\ Jump(t, "gs107")
    /\ UNCHANGED <<model_cache, load_attempted, envVars, modelReads, scalerReads, metrics,
                   hist, op, data, call, snap>>

\* get_scaler, line 107.
gs107(t) ==
    /\ pc[t] = "gs107"
    /\ hist' = [hist EXCEPT !.scalerFailed = TRUE]
    /\ Raise(t, Exc("RuntimeError", "scaler_load_failed", local[t].exc.type))
    /\ UNCHANGED <<cacheVars, envVars, modelReads, scalerReads, metrics, op, data, call, snap>>

get_scaler(t) ==
    \/ gs83(t) \/ gs89(t) \/ gs95(t) \/ gs95s(t) \/ gs102(t) \/ gs106(t) \/ gs107(t)

\* A call of an accessor from another function of the program.
CallAccessor(t, site, entry) ==
    /\ CallFn(t, site, entry)
    /\ call' = [call EXCEPT ![t].acc = @ + 1]

\* load_model_and_scaler, line 121.
lms121(t) ==
    /\ pc[t] = "lms121"
    /\ CallAccessor(t, "lms121", "gm32")
    /\ UNCHANGED <<cacheVars, envVars, modelReads, scalerReads, metrics, hist, op, data, snap>>

\* load_model_and_scaler, line 122 (line 121's result is bound to model).
lms122(t) ==
    /\ pc[t] = "lms122"
    /\ Goto(t, "gs83")
    /\ stack' = [stack EXCEPT ![t] = Append(@, "lms122")]
    /\ local' = [local EXCEPT ![t].model = local[t].ret.val]
    /\ call' = [call EXCEPT ![t].acc = @ + 1]
    /\ UNCHANGED <<cacheVars, envVars, modelReads, scalerReads, metrics, hist, op, data, res, snap>>

\* load_model_and_scaler, line 123: return model, scaler.
lms123(t) ==
    /\ pc[t] = "lms123"
    /\ Return(t, [NoVal EXCEPT !.val = local[t].model, !.val2 = local[t].ret.val])
    /\ UNCHANGED <<cacheVars, envVars, modelReads, scalerReads, metrics, hist, op, data, call, snap>>

\* load_model_and_scaler, lines 124-126: log and re-raise.
lms124(t) ==
    /\ pc[t] = "lms124"
    /\ Raise(t, local[t].exc)
    /\ UNCHANGED <<cacheVars, envVars, modelReads, scalerReads, metrics, hist, op, data, call, snap>>

load_model_and_scaler(t) == lms121(t) \/ lms122(t) \/ lms123(t) \/ lms124(t)

\* Mutant of clear_cache: line 176 is missing.
clear_cache_KeepsLatch ==
    /\ hist.clears < MaxClears
    /\ model_cache' = None
    /\ scaler_cache' = None
    /\ UNCHANGED load_attempted
    /\ hist' = [hist EXCEPT !.clears = @ + 1, !.modelFailed = FALSE, !.scalerFailed = FALSE]
    /\ UNCHANGED <<envVars, modelReads, scalerReads, metrics, pc, stack, op, data, local,
                   res, call>>

\* clear_cache, lines 173-176.
clear_cache ==
    /\ hist.clears < MaxClears
    /\ model_cache' = None
    /\ scaler_cache' = None
    /\ load_attempted' = FALSE
    /\ hist' = [hist EXCEPT !.clears = @ + 1, !.modelFailed = FALSE, !.scalerFailed = FALSE]
    /\ UNCHANGED <<envVars, modelReads, scalerReads, metrics, pc, stack, op, data, local,
                   res, call>>

\* ------------------------------------------------------------- environment
\* The artifact files appear, disappear or change under the running process.
StorageChange ==
    /\ hist.envChanges < MaxEnvChanges
    /\ \E m \in ModelFiles, s \in ScalerFiles :
          /\ <<m, s>> # <<modelStorage, scalerStorage>>
          /\ modelStorage' = m
          /\ scalerStorage' = s
    /\ hist' = [hist EXCEPT !.envChanges = @ + 1]
    /\ UNCHANGED <<cacheVars, settings, modelReads, scalerReads, metrics, pc, stack, op, data, local,
                   res, call, snap>>

\* ---------------------------------------------------------------- inference
\* Feature records: price and volume values are whole numbers (Python floats hold
\* them exactly); the second record's volume does not fit a 32-bit float.
Candles ==
    { [open |-> 150, high |-> 152, low |-> 149, close |-> 151, volume |-> 1000000],
      [open |-> 10, high |-> 12, low |-> 9, close |-> 11, volume |-> 16777217] }

SeqsOfLen(k) == [1..k -> Candles]

Inputs == UNION { SeqsOfLen(k) : k \in 0..(LOOKBACK + MaxExtra) }

RECURSIVE Ulp(_, _)
\* The spacing of 32-bit floats around v >= 0 (24 bits of mantissa).
Ulp(v, u) == IF v < 16777216 * u THEN u ELSE Ulp(v, 2 * u)

\* np.float32(v): round to nearest, ties to even.
Float32(v) ==
    LET u == Ulp(v, 1)
        q == v \div u
        r == v % u
    IN  IF 2 * r < u THEN q * u
        ELSE IF 2 * r > u THEN (q + 1) * u
        ELSE IF q % 2 = 0 THEN q * u ELSE (q + 1) * u

\* _prepare_features, lines 53-65: one row per record, columns in the order
\* open, high, low, close, volume, as 32-bit floats.
PrepareFeatures(d) ==
    [i \in 1..Len(d) |-> << Float32(d[i].open), Float32(d[i].high), Float32(d[i].low),
                            Float32(d[i].close), Float32(d[i].volume) >>]

\* Mutant of GetLastSequence: X[:lookback].
GetFirstSequence(X) == IF Len(X) <= LOOKBACK THEN X ELSE SubSeq(X, 1, LOOKBACK)

\* _get_last_sequence, line 80: X[-lookback:].
GetLastSequence(X) ==
    IF Len(X) <= LOOKBACK THEN X ELSE SubSeq(X, Len(X) - LOOKBACK + 1, Len(X))

\* The fitted scaler (artifacts/scaler.save): a per-column affine map.
ScalerTransform(X) == [i \in 1..Len(X) |-> [c \in 1..Len(X[i]) |-> 2 * X[i][c] + c]]

\* The number of columns the scaler was fitted on.
ScalerWidth(scaler) == IF scaler.kind = "narrow" THEN 4 ELSE 5

ScalerInverse(X) == [i \in 1..Len(X) |-> [c \in 1..Len(X[i]) |-> (X[i][c] - c) \div 2]]

RECURSIVE WeightedSum(_, _, _)
WeightedSum(X, i, c) ==
    IF i > Len(X) THEN 0
    ELSE IF c > Len(X[i]) THEN WeightedSum(X, i + 1, 1)
    ELSE ((7 * i + c) * X[i][c] + WeightedSum(X, i, c + 1)) % 97

\* The trained model (artifacts/amzn_lstm_model.keras) on a batch of one window:
\* a fixed function of every entry and of its position; the output has rank 2.
ModelPredict(T) == << << 2 * WeightedSum(T[1], 1, 1) + 4 >> >>

\* Mutant of p178: line 35 compares with <=.
p178_OffByOne(t) ==
    /\ pc[t] = "p178"
    /\ IF Len(data[t]) <= LOOKBACK
       THEN /\ JumpL(t, "p198", [local[t] EXCEPT !.exc = Exc("ValueError", "insufficient_data", "none")])
            /\ call' = [call EXCEPT ![t].stage = 1, ![t].stages = Append(@, 1)]
       ELSE /\ Jump(t, "p179")
            /\ call' = [call EXCEPT ![t].stage = 1, ![t].stages = Append(@, 1)]
    /\ UNCHANGED <<cacheVars, envVars, modelReads, scalerReads, metrics, hist, op, data, snap>>

\* predict, line 178 (_validate_input, lines 35-41).
p178(t) ==
    /\ pc[t] = "p178"
    /\ IF Len(data[t]) < LOOKBACK
       THEN /\ JumpL(t, "p198", [local[t] EXCEPT !.exc = Exc("ValueError", "insufficient_data", "none")])
            /\ call' = [call EXCEPT ![t].stage = 1, ![t].stages = Append(@, 1)]
       ELSE /\ Jump(t, "p179")
            /\ call' = [call EXCEPT ![t].stage = 1, ![t].stages = Append(@, 1)]
    /\ UNCHANGED <<cacheVars, envVars, modelReads, scalerReads, metrics, hist, op, data, snap>>

\* Mutant of p179: line 180 is missing, the whole matrix goes on to _scale_features.
p179_SkipsWindow(t) ==
    /\ pc[t] = "p179"
    /\ JumpL(t, Via(t, "ts84", "sf96"), [local[t] EXCEPT !.X = PrepareFeatures(data[t])])
    /\ call' = [call EXCEPT ![t].stage = 2, ![t].stages = Append(@, 2)]
    /\ UNCHANGED <<cacheVars, envVars, modelReads, scalerReads, metrics, hist, op, data, snap>>

\* predict, line 179 (_prepare_features).
p179(t) ==
    /\ pc[t] = "p179"
    /\ JumpL(t, "p180", [local[t] EXCEPT !.X = PrepareFeatures(data[t])])
    /\ call' = [call EXCEPT ![t].stage = 2, ![t].stages = Append(@, 2)]
    /\ UNCHANGED <<cacheVars, envVars, modelReads, scalerReads, metrics, hist, op, data, snap>>

\* predict, line 180 (_get_last_sequence).
p180(t) ==
    /\ pc[t] = "p180"
    /\ JumpL(t, Via(t, "ts84", "sf96"), [local[t] EXCEPT !.X = GetLastSequence(local[t].X)])
    /\ call' = [call EXCEPT ![t].stage = 3, ![t].stages = Append(@, 3)]
    /\ UNCHANGED <<cacheVars, envVars, modelReads, scalerReads, metrics, hist, op, data, snap>>

\* predict, line 181: _scale_features, line 96: scaler = get_scaler().
sf96(t) ==
    /\ pc[t] = "sf96"
    /\ CallFn(t, Via(t, "sf96w", "sf96"), "gs83")
    /\ call' = [call EXCEPT ![t].acc = @ + 1, ![t].stage = 4, ![t].stages = Append(@, 4),
                             ![t].calls = Append(@, "get_scaler")]
    /\ UNCHANGED <<cacheVars, envVars, modelReads, scalerReads, metrics, hist, op, data, snap>>

\* Mutant of sf97: the scaler transforms a matrix of any width.
sf97_NoWidthCheck(t) ==
    /\ pc[t] = "sf97"
    /\ LET scaler == local[t].ret.val
       IN  IF scaler = None
           THEN JumpL(t, Via(t, "ts104", "p198"), [local[t] EXCEPT !.exc = Exc("AttributeError", "transform", "none")])
           ELSE JumpL(t, Via(t, "ts92", "p182"), [local[t] EXCEPT !.X = ScalerTransform(local[t].X)])
    /\ call' = [call EXCEPT ![t].window = local[t].X,
                             ![t].calls = IF local[t].ret.val = None THEN @
                                          ELSE Append(@, "transform")]
    /\ UNCHANGED <<cacheVars, envVars, modelReads, scalerReads, metrics, hist, op, data, snap>>

\* _scale_features, lines 97-104: scaler.transform(X).
sf97(t) ==
    /\ pc[t] = "sf97"
    /\ LET scaler == local[t].ret.val
       IN  IF scaler = None
           THEN JumpL(t, Via(t, "ts104", "p198"), [local[t] EXCEPT !.exc = Exc("AttributeError", "transform", "none")])
           ELSE IF ScalerWidth(scaler) # Len(local[t].X[1])
           THEN JumpL(t, Via(t, "ts104", "p198"), [local[t] EXCEPT !.exc = Exc("ValueError", "n_features", "none")])
           ELSE JumpL(t, Via(t, "ts92", "p182"), [local[t] EXCEPT !.X = ScalerTransform(local[t].X)])
    /\ call' = [call EXCEPT ![t].window = local[t].X,
                             ![t].calls = IF local[t].ret.val = None THEN @
                                          ELSE Append(@, "transform")]
    /\ UNCHANGED <<cacheVars, envVars, modelReads, scalerReads, metrics, hist, op, data, snap>>

\* predict, line 182 (_reshape_for_lstm, line 116): X.reshape(1, lookback, n_features).
p182(t) ==
    /\ pc[t] = "p182"
    /\ IF Len(local[t].X) * Len(local[t].X[1]) # LOOKBACK * N_FEATURES
       THEN JumpL(t, "p198", [local[t] EXCEPT !.exc = Exc("ValueError", "reshape", "none")])
       ELSE JumpL(t, Via(t, "tm84", "pr132"), [local[t] EXCEPT !.X = << local[t].X >>])
    /\ call' = [call EXCEPT ![t].stage = 5, ![t].stages = Append(@, 5)]
    /\ UNCHANGED <<cacheVars, envVars, modelReads, scalerReads, metrics, hist, op, data, snap>>

\* _denormalize_prediction, lines 152-153: np.zeros((1, n_features)) with the
\* normalized prediction at index 3.
DummyArray(pred) == << [c \in 1..N_FEATURES |-> IF c = TARGET_COLUMN THEN pred ELSE 0] >>

\* predict, line 183: _predict, line 132: model = get_model().
pr132(t) ==
    /\ pc[t] = "pr132"
    /\ CallFn(t, Via(t, "pr132w", "pr132"), "gm32")
    /\ call' = [call EXCEPT ![t].acc = @ + 1, ![t].stage = 6, ![t].stages = Append(@, 6),
                             ![t].calls = Append(@, "get_model")]
    /\ UNCHANGED <<cacheVars, envVars, modelReads, scalerReads, metrics, hist, op, data, snap>>

\* _predict, lines 133-138: model.predict(X), reduced to one float.
pr133(t) ==
    /\ pc[t] = "pr133"
    /\ IF local[t].ret.val = None
       THEN JumpL(t, Via(t, "tm104", "p198"), [local[t] EXCEPT !.exc = Exc("AttributeError", "predict", "none")])
       ELSE JumpL(t, Via(t, "tm92", "dn150"), [local[t] EXCEPT !.pred = ModelPredict(local[t].X)[1][1]])
    /\ call' = [call EXCEPT ![t].tensor = local[t].X,
                             ![t].calls = IF local[t].ret.val = None THEN @
                                          ELSE Append(@, "predict")]
    /\ UNCHANGED <<cacheVars, envVars, modelReads, scalerReads, metrics, hist, op, data, snap>>

\* predict, line 184: _denormalize_prediction, line 150: scaler = get_scaler().
dn150(t) ==
    /\ pc[t] = "dn150"
    /\ CallFn(t, "dn150", "gs83")
    /\ call' = [call EXCEPT ![t].acc = @ + 1, ![t].stage = 7, ![t].stages = Append(@, 7),
                             ![t].calls = Append(@, "get_scaler")]
    /\ UNCHANGED <<cacheVars, envVars, modelReads, scalerReads, metrics, hist, op, data, snap>>

\* Mutant of dn152: the result is read from the column after the target's.
dn152_WrongColumn(t) ==
    /\ pc[t] = "dn152"
    /\ LET scaler == local[t].ret.val
           dummy == DummyArray(local[t].pred)
       IN  IF scaler = None
           THEN JumpL(t, "p198", [local[t] EXCEPT !.exc = Exc("AttributeError", "inverse_transform", "none")])
           ELSE IF ScalerWidth(scaler) # N_FEATURES
           THEN JumpL(t, "p198", [local[t] EXCEPT !.exc = Exc("ValueError", "n_features", "none")])
           ELSE JumpL(t, "p186", [local[t] EXCEPT !.pred = ScalerInverse(dummy)[1][TARGET_COLUMN + 1]])
    /\ call' = [call EXCEPT ![t].calls = IF local[t].ret.val = None THEN @
                                          ELSE Append(@, "inverse_transform")]
    /\ UNCHANGED <<cacheVars, envVars, modelReads, scalerReads, metrics, hist, op, data, snap>>

\* _denormalize_prediction, lines 152-160: a zero row with the prediction in
\* column 3 (0-based), inverted, and column 3 of the result.
dn152(t) ==
    /\ pc[t] = "dn152"
    /\ LET scaler == local[t].ret.val
           dummy == DummyArray(local[t].pred)
       IN  IF scaler = None
           THEN JumpL(t, "p198", [local[t] EXCEPT !.exc = Exc("AttributeError", "inverse_transform", "none")])
           ELSE IF ScalerWidth(scaler) # N_FEATURES
           THEN JumpL(t, "p198", [local[t] EXCEPT !.exc = Exc("ValueError", "n_features", "none")])
           ELSE JumpL(t, "p186", [local[t] EXCEPT !.pred = ScalerInverse(dummy)[1][TARGET_COLUMN]])
    /\ call' = [call EXCEPT ![t].calls = IF local[t].ret.val = None THEN @
                                          ELSE Append(@, "inverse_transform")]
    /\ UNCHANGED <<cacheVars, envVars, modelReads, scalerReads, metrics, hist, op, data, snap>>

\* Mutant of p186: the response carries a value kept between predictions.
p186_SharedState(t) ==
    /\ pc[t] = "p186"
    /\ LET response == [NoVal EXCEPT !.prediction = local[t].pred + metrics.total_errors,
                                     !.model_version = MODEL_VERSION]
       IN  IF Wrapped(t) THEN JumpL(t, "tp92", [local[t] EXCEPT !.ret = response])
           ELSE Return(t, response)
    /\ UNCHANGED <<cacheVars, envVars, modelReads, scalerReads, metrics, hist, op, data, call, snap>>

\* predict, lines 186-196: the response.
p186(t) ==
    /\ pc[t] = "p186"
    /\ LET response == [NoVal EXCEPT !.prediction = local[t].pred,
                                     !.model_version = MODEL_VERSION]
       IN  IF Wrapped(t) THEN JumpL(t, "tp92", [local[t] EXCEPT !.ret = response])
           ELSE Return(t, response)
    /\ UNCHANGED <<cacheVars, envVars, modelReads, scalerReads, metrics, hist, op, data, call, snap>>

\* predict, lines 198-203: a ValueError is logged and re-raised as it is, anything
\* else is logged and re-raised as RuntimeError; log_error counts an error.
p198(t) ==
    /\ pc[t] = "p198"
    /\ metrics' = [metrics EXCEPT !.total_errors = @ + 1]
    /\ LET e == IF local[t].exc.type = "ValueError" THEN local[t].exc
                ELSE Exc("RuntimeError", "prediction_failed", local[t].exc.type)
       IN  IF Wrapped(t) THEN JumpL(t, "tp104", [local[t] EXCEPT !.exc = e])
           ELSE Raise(t, e)
    /\ UNCHANGED <<cacheVars, envVars, modelReads, scalerReads, hist, op, data, call, snap>>

\* The body of predict and of the stage functions it calls.
predict_body(t) ==
    \/ p178(t) \/ p179(t) \/ p180(t) \/ sf96(t) \/ sf97(t) \/ p182(t)
    \/ pr132(t) \/ pr133(t) \/ dn150(t) \/ dn152(t) \/ p186(t) \/ p198(t)

\* --------------------------------------------------------------- monitoring
\* The operation name given to track_time at each decorated function.
OperationName(l) ==
    CASE l \in {"tp84", "tp92", "tp104"} -> "full_inference_pipeline"
      [] l \in {"ts84", "ts92", "ts104"} -> "scale_features"
      [] l \in {"tm84", "tm92", "tm104"} -> "model_prediction"

\* track_time's wrapper, lines 81-91: the start is logged and func is called.
tt84(t) ==
    /\ pc[t] \in {"tp84", "ts84", "tm84"}
    /\ Jump(t, CASE pc[t] = "tp84" -> "p178"
                 [] pc[t] = "ts84" -> "sf96"
                 [] pc[t] = "tm84" -> "pr132")
    /\ call' = [call EXCEPT ![t].log = Append(@, <<"start", OperationName(pc[t])>>)]
    /\ UNCHANGED <<cacheVars, envVars, modelReads, scalerReads, metrics, hist, op, data, snap>>

\* wrapper, lines 92-102: the completion is logged and func's result is returned.
tt92(t) ==
    /\ pc[t] \in {"tp92", "ts92", "tm92"}
    /\ CASE pc[t] = "tp92" -> Return(t, local[t].ret)
         [] pc[t] = "ts92" -> Jump(t, "p182")
         [] pc[t] = "tm92" -> Jump(t, "dn150")
    /\ call' = [call EXCEPT ![t].log = Append(@, <<"complete", OperationName(pc[t])>>)]
    /\ UNCHANGED <<cacheVars, envVars, modelReads, scalerReads, metrics, hist, op, data, snap>>

\* Mutant of tt104: the wrapper raises an error of its own in place of func's.
tt104_WrapsError(t) ==
    /\ pc[t] \in {"tp104", "ts104", "tm104"}
    /\ LET e == Exc("RuntimeError", "operation_failed", local[t].exc.type)
       IN  IF pc[t] = "tp104" THEN Raise(t, e)
           ELSE JumpL(t, "p198", [local[t] EXCEPT !.exc = e])
    /\ call' = [call EXCEPT ![t].log = Append(@, <<"error", OperationName(pc[t])>>)]
    /\ UNCHANGED <<cacheVars, envVars, modelReads, scalerReads, metrics, hist, op, data, snap>>

\* wrapper, lines 104-117: the failure is logged and func's exception goes on as
\* it is (a bare raise).
tt104(t) ==
    /\ pc[t] \in {"tp104", "ts104", "tm104"}
    /\ IF pc[t] = "tp104" THEN Raise(t, local[t].exc) ELSE Jump(t, "p198")
    /\ call' = [call EXCEPT ![t].log = Append(@, <<"error", OperationName(pc[t])>>)]
    /\ UNCHANGED <<cacheVars, envVars, modelReads, scalerReads, metrics, hist, op, data, snap>>

track_time(t) == tt84(t) \/ tt92(t) \/ tt104(t)

\* InferencePipeline.predict with its decorators.
predict(t) == predict_body(t) \/ track_time(t)

\* ------------------------------------------------------------------ schemas
\* CandleData, lines 11-15: the fields in the order pydantic validates them.
FieldOrder == <<"open", "high", "low", "close", "volume">>

\* CandleData, lines 11-15: gt=0 for the prices, ge=0 for the volume.
FieldConstraint(f, v) == IF f = "volume" THEN v >= 0 ELSE v > 0

\* CandleData.high_must_be_highest, lines 17-23; seen is info.data, the fields
\* validated before this one.
high_must_be_highest(raw, seen) == ~("low" \in seen /\ raw.high < raw.low)

\* Mutant of low_must_be_lowest: the validator is missing.
low_must_be_lowest_Missing(raw, seen) == TRUE

\* CandleData.low_must_be_lowest, lines 25-31.
low_must_be_lowest(raw, seen) == ~("high" \in seen /\ raw.low > raw.high)

FieldValid(raw, f, seen) ==
    /\ FieldConstraint(f, raw[f])
    /\ f = "high" => high_must_be_highest(raw, seen)
    /\ f = "low" => low_must_be_lowest(raw, seen)

RECURSIVE ValidatedFields(_, _)
\* info.data after the first k fields: the fields that passed validation.
ValidatedFields(raw, k) ==
    IF k = 0 THEN {}
    ELSE LET seen == ValidatedFields(raw, k - 1)
             f == FieldOrder[k]
         IN  IF FieldValid(raw, f, seen) THEN seen \cup {f} ELSE seen

\* CandleData(**raw) is constructed: no field was rejected.
CandleDataAccepts(raw) == ValidatedFields(raw, Len(FieldOrder)) = {"open", "high", "low", "close", "volume"}

\* PredictionRequest, lines 36-50: every record is a CandleData and there are at
\* least min_length of them.
PredictionRequestAccepts(body) ==
    /\ \A i \in 1..Len(body) : CandleDataAccepts(body[i])
    /\ Len(body) >= MIN_LENGTH

\* Field values a request body may carry.
RawCandles ==
    [open : {0, 1, 2}, high : {0, 1, 2}, low : {0, 1, 2}, close : {0, 1, 2},
     volume : {-1, 0, 1}]

\* Bodies of min_length records, one of them arbitrary.
RawBodies ==
    { [i \in 1..MIN_LENGTH |-> IF i = k THEN raw ELSE good] :
        k \in 1..MIN_LENGTH, raw \in RawCandles, good \in Candles }

\* --------------------------------------------------------------- csv_parser
\* The cells of a CSV row as csv.DictReader yields them: text that float() reads
\* as v, text it does not read, an empty cell, and a cell longer than the csv
\* module's field limit.
Num(v) == [k |-> "num", v |-> v]
Text == [k |-> "text", v |-> 0]
Empty == [k |-> "empty", v |-> 0]
Huge == [k |-> "huge", v |-> 0]

RowOf(c) == << Num(c.open), Num(c.high), Num(c.low), Num(c.close), Num(c.volume) >>

CsvRows ==
    { RowOf(c) : c \in Candles } \cup
    { << Num(10), Num(12), Num(9), Text, Num(1000) >>,
      << Num(10), Empty, Num(9), Num(11), Num(1000) >>,
      << Num(10), Num(12), Num(9), Num(11) >>,
      << Num(10), Num(12), Num(9), Num(11), Num(1000), Num(7) >>,
      << Num(10), Num(8), Num(9), Num(11), Num(1000) >>,
      << Num(0), Num(12), Num(9), Num(11), Num(1000) >>,
      << Num(10), Num(12), Num(9), Num(11), Huge >> }

CsvHeaders ==
    { <<"open", "high", "low", "close", "volume">>, <<"open", "high", "low", "close">> }

CsvTexts ==
    [header : CsvHeaders,
     rows : UNION { [1..k -> CsvRows] : k \in 0..(CSV_MIN_ROWS + MaxExtra) }]

\* parse_csv_to_candles, lines 29-41: the header must name the five fields.
csv34(t) ==
    /\ pc[t] = "csv34"
    /\ LET headers == { data[t].header[i] : i \in 1..Len(data[t].header) }
       IN  IF {"open", "high", "low", "close", "volume"} \ headers # {}
           THEN JumpL(t, "csv75", [local[t] EXCEPT !.exc = Exc("ValueError", "missing_fields", "none")])
           ELSE JumpL(t, "csv45", [local[t] EXCEPT !.X = <<>>])
    /\ UNCHANGED <<cacheVars, envVars, modelReads, scalerReads, metrics, hist, op, data, call, snap>>

\* The value csv.DictReader gives a row for a header field (restval None, here
\* Empty with k "none", when the row is short).
CellOf(header, row, f) ==
    LET i == CHOOSE j \in 1..Len(header) : header[j] = f
    IN  IF i <= Len(row) THEN row[i] ELSE [k |-> "none", v |-> 0]

\* parse_csv_to_candles, lines 45-61: the next row, if any, becomes a CandleData.
\* Reading the row raises csv.Error on an oversized field; line 48 calls
\* k.lower() on the None key of a long row and v.strip() on the None values of a
\* short one; float() and CandleData raise ValueError, which line 59 catches.
csv45(t) ==
    /\ pc[t] = "csv45"
    /\ LET header == data[t].header
           n == Len(local[t].X)
           row == data[t].rows[n + 1]
           raw == [f \in {"open", "high", "low", "close", "volume"} |-> CellOf(header, row, f).v]
       IN  IF n = Len(data[t].rows) THEN Jump(t, "csv63")
           ELSE IF \E i \in 1..Len(row) : row[i].k = "huge"
           THEN JumpL(t, "csv75", [local[t] EXCEPT !.exc = Exc("csv.Error", "field_limit", "none")])
           ELSE IF Len(row) # Len(header)
           THEN JumpL(t, "csv75", [local[t] EXCEPT !.exc = Exc("AttributeError", "NoneType", "none")])
           ELSE IF \E i \in 1..Len(row) : row[i].k # "num"
           THEN JumpL(t, "csv75", [local[t] EXCEPT !.exc = Exc("ValueError", "row", "ValueError")])
           ELSE IF ~CandleDataAccepts(raw)
           THEN JumpL(t, "csv75", [local[t] EXCEPT !.exc = Exc("ValueError", "row", "ValidationError")])
           ELSE JumpL(t, "csv45", [local[t] EXCEPT !.X = Append(@, raw)])
    /\ UNCHANGED <<cacheVars, envVars, modelReads, scalerReads, metrics, hist, op, data, call, snap>>

\* parse_csv_to_candles, lines 63-73.
csv63(t) ==
    /\ pc[t] = "csv63"
    /\ IF Len(local[t].X) = 0
       THEN JumpL(t, "csv75", [local[t] EXCEPT !.exc = Exc("ValueError", "no_data", "none")])
       ELSE IF Len(local[t].X) < CSV_MIN_ROWS
       THEN JumpL(t, "csv75", [local[t] EXCEPT !.exc = Exc("ValueError", "too_few_rows", "none")])
       ELSE Return(t, [NoVal EXCEPT !.candles = local[t].X])
    /\ UNCHANGED <<cacheVars, envVars, modelReads, scalerReads, metrics, hist, op, data, call, snap>>

\* parse_csv_to_candles, lines 75-80: csv.Error becomes ValueError, anything else
\* is logged and raised as it is.
csv75(t) ==
    /\ pc[t] = "csv75"
    /\ IF local[t].exc.type = "csv.Error"
       THEN Raise(t, Exc("ValueError", "csv_format", "csv.Error"))
       ELSE Raise(t, local[t].exc)
    /\ UNCHANGED <<cacheVars, envVars, modelReads, scalerReads, metrics, hist, op, data, call, snap>>

parse_csv_to_candles(t) == csv34(t) \/ csv45(t) \/ csv63(t) \/ csv75(t)

\* ------------------------------------------------------------------ api/index
\* The handler answers with an HTTP status.
Respond(t, status, v) ==
    /\ Goto(t, "done")
    /\ res' = [res EXCEPT ![t] = [NoRes EXCEPT !.status = "responded", !.http = status,
                                               !.ret = v, !.exc = local[t].exc]]
    /\ local' = [local EXCEPT ![t] = NoLocal]
    /\ UNCHANGED stack

\* Mutant of h165: the handler goes to the pipeline without looking at the cache.
h165_NoLoadCheck(t) ==
    /\ pc[t] = "h165"
    /\ Jump(t, "h181")
    /\ hist' = [hist EXCEPT !.handled = @ + 1]
    /\ UNCHANGED <<cacheVars, envVars, modelReads, scalerReads, metrics, op, data, call, snap>>

\* /predict, lines 158-165: the handler is entered (one more handled request in
\* the history) and looks at the cache.
h165(t) ==
    /\ pc[t] = "h165"
    /\ IF ~is_model_loaded \/ ~is_scaler_loaded THEN Jump(t, "h173") ELSE Jump(t, "h181")
    /\ hist' = [hist EXCEPT !.handled = @ + 1]
    /\ UNCHANGED <<cacheVars, envVars, modelReads, scalerReads, metrics, op, data, call, snap>>

\* /predict, line 173.
h173(t) ==
    /\ pc[t] = "h173"
    /\ CallFn(t, "h173", "lms121")
    /\ UNCHANGED <<cacheVars, envVars, modelReads, scalerReads, metrics, hist, op, data, call, snap>>

\* /predict, lines 174-179: log_error, then HTTPException(503) raised inside the
\* handler's outer try.
h174(t) ==
    /\ pc[t] = "h174"
    /\ metrics' = [metrics EXCEPT !.total_errors = @ + 1]
    /\ JumpL(t, "h192", [local[t] EXCEPT !.exc = Exc("HTTPException", "503", local[t].exc.type)])
    /\ UNCHANGED <<cacheVars, envVars, modelReads, scalerReads, hist, op, data, call, snap>>

\* /predict, line 181.
h181(t) ==
    /\ pc[t] = "h181"
    /\ CallFn(t, "h181", "tp84")
    /\ UNCHANGED <<cacheVars, envVars, modelReads, scalerReads, metrics, hist, op, data, call, snap>>

\* /predict, lines 183-190: log_prediction_request(success=True) and the response.
h183(t) ==
    /\ pc[t] = "h183"
    /\ metrics' = [metrics EXCEPT !.total_predictions = @ + 1, !.total_requests = @ + 1]
    /\ Respond(t, 200, local[t].ret)
    /\ UNCHANGED <<cacheVars, envVars, modelReads, scalerReads, hist, op, data, call, snap>>

\* Mutant of h192: a failed request is logged as an error only, without
\* increment_requests().
h192_NoRequestCount(t) ==
    /\ pc[t] = "h192"
    /\ IF local[t].exc.type = "ValueError"
       THEN /\ metrics' = [metrics EXCEPT !.total_errors = @ + 1]
            /\ Respond(t, 400, NoVal)
       ELSE /\ metrics' = [metrics EXCEPT !.total_errors = @ + 2]
            /\ Respond(t, 500, NoVal)
    /\ UNCHANGED <<cacheVars, envVars, modelReads, scalerReads, hist, op, data, call, snap>>

\* /predict, lines 192-217: ValueError is answered 400; any other exception 500.
h192(t) ==
    /\ pc[t] = "h192"
    /\ IF local[t].exc.type = "ValueError"
       THEN /\ metrics' = [metrics EXCEPT !.total_errors = @ + 1, !.total_requests = @ + 1]
            /\ Respond(t, 400, NoVal)
       ELSE /\ metrics' = [metrics EXCEPT !.total_errors = @ + 2, !.total_requests = @ + 1]
            /\ Respond(t, 500, NoVal)
    /\ UNCHANGED <<cacheVars, envVars, modelReads, scalerReads, hist, op, data, call, snap>>

http_predict(t) == h165(t) \/ h173(t) \/ h174(t) \/ h181(t) \/ h183(t) \/ h192(t)

\* lifespan reaches its yield: the application starts serving.
Started(t) ==
    /\ Goto(t, "done")
    /\ res' = [res EXCEPT ![t] = [NoRes EXCEPT !.status = "started", !.exc = local[t].exc]]
    /\ local' = [local EXCEPT ![t] = NoLocal]
    /\ UNCHANGED stack

\* lifespan, line 53.
ls53(t) ==
    /\ pc[t] = "ls53"
    /\ CallFn(t, "ls53", "lms121")
    /\ UNCHANGED <<cacheVars, envVars, modelReads, scalerReads, metrics, hist, op, data, call, snap>>

\* lifespan, lines 55-67 and 76: log_model_loading counts a cold start.
ls55(t) ==
    /\ pc[t] = "ls55"
    /\ metrics' = [metrics EXCEPT !.total_cold_starts = @ + 1]
    /\ Started(t)
    /\ UNCHANGED <<cacheVars, envVars, modelReads, scalerReads, hist, op, data, call, snap>>

\* lifespan, lines 69-76: the failure is logged and swallowed.
ls69(t) ==
    /\ pc[t] = "ls69"
    /\ Started(t)
    /\ UNCHANGED <<cacheVars, envVars, modelReads, scalerReads, metrics, hist, op, data, call, snap>>

lifespan(t) == ls53(t) \/ ls55(t) \/ ls69(t)

\* schemas.PredictionRequest, lines 36-50: a body the schema rejects is answered
\* 422 and the handler does not run.
http_rejected(t, d) ==
    /\ ~PredictionRequestAccepts(d)
    /\ Idle(t)
    /\ pc' = [pc EXCEPT ![t] = "done"]
    /\ op' = [op EXCEPT ![t] = "http_predict"]
    /\ data' = [data EXCEPT ![t] = d]
    /\ stack' = [stack EXCEPT ![t] = <<>>]
    /\ local' = [local EXCEPT ![t] = NoLocal]
    /\ res' = [res EXCEPT ![t] = [NoRes EXCEPT !.status = "responded", !.http = 422]]
    /\ call' = [call EXCEPT ![t] = NoCall]
    /\ UNCHANGED <<cacheVars, envVars, modelReads, scalerReads, metrics, hist, snap>>

\* ------------------------------------------------------------------ callers
\* The caller's operation o is over; the step that ends it.
Done(t, o) == pc[t] = "done" /\ op[t] = o

Completes(t, o) == pc[t] # "done" /\ pc'[t] = "done" /\ op[t] = o

ReadsBelow(n) == modelReads < n /\ scalerReads < n

CallGetModel(t) ==
    ReadsBelow(MaxReads) /\ Begin(t, "get_model", <<>>, "gm32") /\ UNCHANGED snap

CallGetScaler(t) ==
    ReadsBelow(MaxReads) /\ Begin(t, "get_scaler", <<>>, "gs83") /\ UNCHANGED snap

CallLoadModelAndScaler(t) ==
    /\ ReadsBelow(MaxReads)
    /\ Begin(t, "load_model_and_scaler", <<>>, "lms121")
    /\ UNCHANGED snap

\* The process after the modules are imported, whatever the environment holds.
Boot ==
    /\ model_cache = None
    /\ scaler_cache = None
    /\ load_attempted = FALSE
    /\ modelStorage \in ModelFiles
    /\ scalerStorage \in ScalerFiles
    /\ modelReads = 0
    /\ scalerReads = 0
    /\ metrics = [total_requests |-> 0, total_predictions |-> 0, total_errors |-> 0,
                  total_cold_starts |-> 0]
    /\ hist = [modelFailed |-> FALSE, scalerFailed |-> FALSE, clears |-> 0, handled |-> 0,
               envChanges |-> 0]
    /\ pc = [t \in Threads |-> "idle"]
    /\ stack = [t \in Threads |-> <<>>]
    /\ op = [t \in Threads |-> "none"]
    /\ data = [t \in Threads |-> <<>>]
    /\ local = [t \in Threads |-> NoLocal]
    /\ res = [t \in Threads |-> NoRes]
    /\ call = [t \in Threads |-> NoCall]
    /\ snap = NoSnap

\* The default deployment.
Init == Boot /\ settings = DefaultSettings

\* Any number of threads use the artifact cache at once.
CacheStep(t) ==
    \/ CallGetModel(t) \/ CallGetScaler(t) \/ CallLoadModelAndScaler(t)
    \/ get_model(t) \/ get_scaler(t) \/ load_model_and_scaler(t)

Next ==
    \/ \E t \in Threads : CacheStep(t)
    \/ StorageChange

Spec == Init /\ [][Next]_vars

\* --------------------------------------------------------- a single caller
Snapshot ==
    [mfailed |-> hist.modelFailed, sfailed |-> hist.scalerFailed, mc0 |-> model_cache,
     sc0 |-> scaler_cache, ms0 |-> modelStorage, ss0 |-> scalerStorage,
     la0 |-> load_attempted]

Caller == 1

CountersBelowCap ==
    /\ metrics.total_errors < MaxErrors
    /\ metrics.total_requests < MaxRequests

SeqGetModel ==
    ReadsBelow(MaxSeqReads) /\ Begin(Caller, "get_model", <<>>, "gm32") /\ snap' = Snapshot

SeqGetScaler ==
    ReadsBelow(MaxSeqReads) /\ Begin(Caller, "get_scaler", <<>>, "gs83") /\ snap' = Snapshot

SeqLoadModelAndScaler ==
    /\ ReadsBelow(MaxSeqReads)
    /\ Begin(Caller, "load_model_and_scaler", <<>>, "lms121")
    /\ snap' = Snapshot

SeqPredict ==
    /\ CountersBelowCap
    /\ ReadsBelow(MaxSeqReads)
    /\ \E d \in Inputs : Begin(Caller, "predict", d, "tp84")
    /\ snap' = Snapshot

SeqHttpPredict ==
    /\ Idle(Caller)
    /\ CountersBelowCap
    /\ ReadsBelow(MaxSeqReads)
    /\ \E d \in Inputs :
          \/ PredictionRequestAccepts(d) /\ Begin(Caller, "http_predict", d, "h165")
          \/ http_rejected(Caller, d)
    /\ snap' = Snapshot

SeqClearCache == Idle(Caller) /\ clear_cache /\ UNCHANGED snap

SeqStorageChange == Idle(Caller) /\ StorageChange

\* One caller uses the artifact cache; the files change between its calls.
NextSeq ==
    \/ SeqGetModel \/ SeqGetScaler \/ SeqLoadModelAndScaler
    \/ get_model(Caller) \/ get_scaler(Caller) \/ load_model_and_scaler(Caller)
    \/ SeqClearCache
    \/ SeqStorageChange

SpecSeq == Init /\ [][NextSeq]_vars

\* One caller asks for predictions, directly and over HTTP.
NextPredict ==
    \/ SeqPredict \/ SeqHttpPredict
    \/ get_model(Caller) \/ get_scaler(Caller) \/ load_model_and_scaler(Caller)
    \/ predict(Caller) \/ http_predict(Caller)
    \/ SeqClearCache
    \/ SeqStorageChange

SpecPredict == Init /\ [][NextPredict]_vars

\* The served application: lifespan runs first, then /predict requests arrive one
\* at a time while the artifact files change between them.
AppStartup ==
    /\ op[Caller] = "none"
    /\ Begin(Caller, "lifespan", <<>>, "ls53")
    /\ snap' = Snapshot

AppRequest ==
    /\ op[Caller] # "none"
    /\ Idle(Caller)
    /\ metrics.total_requests < MaxRequests
    /\ ReadsBelow(MaxSeqReads)
    /\ \E d \in Inputs :
          PredictionRequestAccepts(d) /\ Begin(Caller, "http_predict", d, "h165")
    /\ snap' = Snapshot

NextApp ==
    \/ AppStartup \/ AppRequest
    \/ lifespan(Caller) \/ http_predict(Caller) \/ predict(Caller)
    \/ load_model_and_scaler(Caller) \/ get_model(Caller) \/ get_scaler(Caller)
    \/ SeqStorageChange

SpecApp == Init /\ [][NextApp]_vars

\* One /predict request whose body holds arbitrary field values.
SchemaRequest ==
    /\ op[Caller] = "none"
    /\ \E d \in RawBodies :
          \/ PredictionRequestAccepts(d) /\ Begin(Caller, "http_predict", d, "h165")
          \/ http_rejected(Caller, d)
    /\ snap' = Snapshot

NextSchema ==
    \/ SchemaRequest
    \/ http_predict(Caller) \/ predict(Caller)
    \/ load_model_and_scaler(Caller) \/ get_model(Caller) \/ get_scaler(Caller)

SpecSchema == Init /\ [][NextSchema]_vars

\* Two callers ask for one prediction each, one after the other, with the artifact
\* files as they are.
PairCallers == {1, 2}

PairPredict(t) ==
    /\ op[t] = "none"
    /\ \E d \in Inputs : Begin(t, "predict", d, "tp84")
    /\ UNCHANGED snap

PairStep(t) ==
    \/ PairPredict(t)
    \/ predict(t) \/ get_model(t) \/ get_scaler(t)

NextPair == \E t \in PairCallers : (\A u \in Threads \ {t} : Idle(u)) /\ PairStep(t)

SpecPair == Init /\ [][NextPair]_vars

\* Two callers ask for one prediction each at any time: one after the other or
\* interleaved line by line, with the artifact files as they are.
ConcInputs == SeqsOfLen(LOOKBACK - 1) \cup SeqsOfLen(LOOKBACK)

ConcPredict(t) ==
    /\ op[t] = "none"
    /\ \E d \in ConcInputs : Begin(t, "predict", d, "tp84")
    /\ UNCHANGED snap

ConcStep(t) ==
    \/ ConcPredict(t)
    \/ predict(t) \/ get_model(t) \/ get_scaler(t)

NextConc == \E t \in PairCallers : ConcStep(t)

SpecConc == Init /\ [][NextConc]_vars

\* One prediction in a deployment whose FEATURES and TARGET come from the environment.
InitConfig == Boot /\ settings \in Configurations

ConfigPredict ==
    /\ op[Caller] = "none"
    /\ \E d \in Inputs : Begin(Caller, "predict", d, "tp84")
    /\ snap' = Snapshot

NextConfig ==
    \/ ConfigPredict
    \/ predict(Caller) \/ get_model(Caller) \/ get_scaler(Caller)

SpecConfig == InitConfig /\ [][NextConfig]_vars

\* The decorated pipeline and the undecorated one on the same records from the same
\* state: the first caller runs predict, the cache is reset, and the second caller
\* runs the pipeline without its decorators.
PlainCaller == 2

TimedPredict ==
    /\ op[Caller] = "none"
    /\ \E d \in Inputs : Begin(Caller, "predict", d, "tp84")
    /\ UNCHANGED snap

TimedReset ==
    /\ Done(Caller, "predict")
    /\ hist.clears = 0
    /\ clear_cache
    /\ snap' = Snapshot

PlainPredict ==
    /\ hist.clears > 0
    /\ op[PlainCaller] = "none"
    /\ Begin(PlainCaller, "predict_plain", data[Caller], "p178")
    /\ UNCHANGED snap

NextTimed ==
    \/ TimedPredict \/ TimedReset \/ PlainPredict
    \/ \E t \in PairCallers : predict(t) \/ get_model(t) \/ get_scaler(t)

SpecTimed == Init /\ [][NextTimed]_vars

\* One caller parses CSV texts.
CsvParse ==
    /\ op[Caller] = "none"
    /\ \E c \in CsvTexts : Begin(Caller, "parse_csv_to_candles", c, "csv34")
    /\ UNCHANGED snap

NextCsv == CsvParse \/ parse_csv_to_candles(Caller)

InitCsv == Init /\ modelStorage = "ok" /\ scalerStorage = "ok"

SpecCsv == InitCsv /\ [][NextCsv]_vars

\* ================================================================= claims
Returned(t) == res[t].status = "returned"

Raised(t, ty, m) == res[t].status = "raised" /\ res[t].exc.type = ty /\ res[t].exc.msg = m

\* C1: once a get_model() call has failed while loading, every later get_model()
\* call made before any clear_cache() fails with the "previous load attempt failed"
\* error and reads no storage.
C1_FailureIsLatched ==
    (Done(Caller, "get_model") /\ snap.mfailed)
        => /\ Raised(Caller, "RuntimeError", "previous_load_failed")
           /\ call[Caller].mreads = 0

\* C2: callers racing on an unloaded model (the model file readable and unchanged,
\* no reset) bring about at most one storage read for the model.
C2_AtMostOneLoad ==
    (hist.envChanges = 0 /\ hist.clears = 0 /\ modelStorage = "ok") => modelReads <= 1

\* C3: callers racing on an unloaded model (files unchanged, no reset) all get the
\* same outcome: all the same model handle, or all an error.
C3_SameOutcome ==
    \A t1, t2 \in Threads :
        (Done(t1, "get_model") /\ Done(t2, "get_model")
            /\ hist.envChanges = 0 /\ hist.clears = 0)
        => /\ Returned(t1) = Returned(t2)
           /\ Returned(t1) => res[t1].ret.val = res[t2].ret.val

\* C4: with one caller, once an artifact is loaded every step other than a reset
\* keeps its handle and adds no storage read, and a get_model() or get_scaler()
\* call that starts with the artifact loaded returns that very handle.
C4_LoadedOnceReadOnce ==
    [][ /\ (model_cache # None /\ hist'.clears = hist.clears)
            => (model_cache' = model_cache /\ modelReads' = modelReads)
        /\ (scaler_cache # None /\ hist'.clears = hist.clears)
            => (scaler_cache' = scaler_cache /\ scalerReads' = scalerReads)
        /\ (Completes(Caller, "get_model") /\ snap.mc0 # None)
            => (res'[Caller].status = "returned" /\ res'[Caller].ret.val = snap.mc0)
        /\ (Completes(Caller, "get_scaler") /\ snap.sc0 # None)
            => (res'[Caller].status = "returned" /\ res'[Caller].ret.val = snap.sc0)
      ]_vars

C4_Witness ==
    /\ Done(Caller, "get_model")
    /\ snap.mc0 # None
    /\ res[Caller].ret.val = snap.mc0
    /\ modelReads = 1

\* C5: whatever the interleaving of concurrent accessor calls, a loaded artifact
\* keeps its handle until clear_cache() is called.
C5_LoadedStaysLoaded ==
    [][ /\ (model_cache # None /\ hist'.clears = hist.clears) => model_cache' = model_cache
        /\ (scaler_cache # None /\ hist'.clears = hist.clears) => scaler_cache' = scaler_cache
      ]_vars

\* C6: a get_scaler() call made after a failed scaler load, with no scaler cached,
\* reads the storage again: it fails again when the file is still unreadable, and
\* when the file is readable it returns the scaler and leaves it cached.
C6_ScalerFailureNotLatched ==
    [][ (Completes(Caller, "get_scaler") /\ snap.sfailed /\ snap.sc0 = None)
        => /\ call'[Caller].sreads = 1
           /\ snap.ss0 \in {"missing", "corrupt"}
                => /\ res'[Caller].status = "raised"
                   /\ res'[Caller].exc.msg = "scaler_load_failed"
                   /\ scaler_cache' = None
           /\ snap.ss0 \in {"ok", "narrow"}
                => /\ res'[Caller].status = "returned"
                   /\ res'[Caller].ret.val # None
                   /\ scaler_cache' = res'[Caller].ret.val
      ]_vars

C6_Witness ==
    /\ Done(Caller, "get_scaler")
    /\ snap.sfailed
    /\ snap.sc0 = None
    /\ Returned(Caller)
    /\ scaler_cache = res[Caller].ret.val
    /\ scalerReads = 3

\* C7: clear_cache() leaves both artifacts unloaded and no latch, whatever the
\* state before; after it, a get_model() or get_scaler() call that starts unloaded
\* reads the storage once and, when the file is readable, returns the artifact and
\* leaves it loaded.
C7_ClearCacheResets ==
    [][ /\ (hist'.clears # hist.clears)
            => (~is_model_loaded' /\ ~is_scaler_loaded' /\ ~load_attempted')
        /\ (Completes(Caller, "get_model") /\ hist.clears > 0 /\ snap.mc0 = None)
            => /\ call'[Caller].mreads = 1
               /\ snap.ms0 = "ok"
                    => /\ res'[Caller].status = "returned"
                       /\ res'[Caller].ret.val # None
                       /\ model_cache' = res'[Caller].ret.val
        /\ (Completes(Caller, "get_scaler") /\ hist.clears > 0 /\ snap.sc0 = None)
            => /\ call'[Caller].sreads = 1
               /\ snap.ss0 \in {"ok", "narrow"}
                    => /\ res'[Caller].status = "returned"
                       /\ res'[Caller].ret.val # None
                       /\ scaler_cache' = res'[Caller].ret.val
      ]_vars

\* The model was loaded, the cache was reset, and the call after the reset loaded
\* it again.
C7_Witness ==
    /\ hist.clears = 1
    /\ Done(Caller, "get_model")
    /\ snap.mc0 = None
    /\ snap.ms0 = "ok"
    /\ Returned(Caller)
    /\ model_cache.id = 2
    /\ hist.envChanges = 0
    /\ ~hist.modelFailed

\* C8: predict on fewer than LOOKBACK records raises the validation ValueError as
\* it is and calls neither get_scaler() nor get_model(); exactly LOOKBACK records
\* pass validation; /predict with too few records is answered 400 or 422.
C8_ShortInputRejected ==
    /\ (Done(Caller, "predict") /\ Len(data[Caller]) < LOOKBACK)
        => /\ res[Caller].status = "raised"
           /\ res[Caller].exc = Exc("ValueError", "insufficient_data", "none")
           /\ call[Caller].acc = 0
           /\ call[Caller].mreads = 0
           /\ call[Caller].sreads = 0
           /\ call[Caller].stage = 1
    /\ (Done(Caller, "predict") /\ Len(data[Caller]) = LOOKBACK)
        => /\ call[Caller].stage >= 4
           /\ res[Caller].exc.msg # "insufficient_data"
    /\ (Done(Caller, "http_predict") /\ Len(data[Caller]) < LOOKBACK)
        => res[Caller].http \in {400, 422}

C8_Witness ==
    /\ Done(Caller, "predict")
    /\ Len(data[Caller]) = LOOKBACK - 1
    /\ Raised(Caller, "ValueError", "insufficient_data")
    /\ is_model_loaded
    /\ is_scaler_loaded

\* C9: predict raises ValueError (and /predict answers 400) only for sequences of
\* fewer than LOOKBACK records; a failure of stages 2-7 is a RuntimeError.
C9_OnlyShortInputIsClientError ==
    /\ (Done(Caller, "predict") /\ res[Caller].status = "raised"
            /\ res[Caller].exc.type = "ValueError")
        => Len(data[Caller]) < LOOKBACK
    /\ (Done(Caller, "http_predict") /\ res[Caller].http = 400)
        => Len(data[Caller]) < LOOKBACK

LastRecords(d) == SubSeq(d, Len(d) - LOOKBACK + 1, Len(d))

SameTrailingWindow(t1, t2) ==
    /\ Len(data[t1]) >= LOOKBACK
    /\ Len(data[t2]) >= LOOKBACK
    /\ LastRecords(data[t1]) = LastRecords(data[t2])

\* C10: two predictions on sequences with the same last LOOKBACK records give the
\* same value, and present the same window to the scaler and to the model.
C10_OnlyTrailingWindowCounts ==
    \A t1, t2 \in PairCallers :
        (Done(t1, "predict") /\ Done(t2, "predict") /\ SameTrailingWindow(t1, t2))
        => /\ res[t1].status = res[t2].status
           /\ res[t1].ret.prediction = res[t2].ret.prediction
           /\ call[t1].window = call[t2].window
           /\ call[t1].tensor = call[t2].tensor

C10_Witness ==
    /\ Done(1, "predict")
    /\ Done(2, "predict")
    /\ SameTrailingWindow(1, 2)
    /\ Len(data[1]) > Len(data[2])
    /\ data[1][1] # data[2][1]
    /\ Returned(1)
    /\ Returned(2)

\* The position of feature f in the feature order fs.
ColumnOf(f, fs) == CHOOSE i \in 1..Len(fs) : fs[i] = f

\* The artifacts a call that starts now will use are both loadable and fitted for
\* the default feature order.
ArtifactsUsable(sn) ==
    /\ sn.mc0 # None \/ sn.ms0 = "ok"
    /\ IF sn.sc0 # None THEN sn.sc0.kind = "ok" ELSE sn.ss0 = "ok"

\* What the claim asks of predict on records d: the model's output for the
\* normalized trailing window, put alone in the 'close' column of a zero row as wide
\* as the scaler expects, inverted, and the 'close' column of the result.
ExpectedPrediction(d) ==
    LET window == GetLastSequence(PrepareFeatures(d))
        out == ModelPredict(<< ScalerTransform(window) >>)[1][1]
        close == ColumnOf("close", DefaultSettings.FEATURES)
        row == << [c \in 1..ScalerWidth(Handle(1, "ok")) |-> IF c = close THEN out ELSE 0] >>
    IN  ScalerInverse(row)[1][close]

\* C11: predict on at least LOOKBACK valid records, with both artifacts loadable,
\* returns the inverse transform's 'close' entry of the zero row that holds the
\* model's output in the 'close' column, and the configured MODEL_VERSION.
C11_PredictionIsDenormalizedOutput ==
    (Done(Caller, "predict") /\ Len(data[Caller]) >= LOOKBACK /\ ArtifactsUsable(snap))
        => /\ Returned(Caller)
           /\ res[Caller].ret.prediction = ExpectedPrediction(data[Caller])
           /\ res[Caller].ret.model_version = MODEL_VERSION

C11_Witness ==
    /\ Done(Caller, "predict")
    /\ Len(data[Caller]) = LOOKBACK + 1
    /\ \E i \in 1..Len(data[Caller]) : data[Caller][i].volume # Float32(data[Caller][i].volume)
    /\ snap.mc0 = None
    /\ Returned(Caller)
    /\ res[Caller].ret.prediction = ExpectedPrediction(data[Caller])

\* C12: a /predict request whose lazy load of the artifacts fails is answered 503.
C12_LoadFailureAnswered503 ==
    (Done(Caller, "http_predict") /\ res[Caller].exc = Exc("HTTPException", "503", "RuntimeError"))
        => res[Caller].http = 503

\* C13: after load_model_and_scaler(), each artifact that was not loaded before is
\* loaded exactly when its own file is readable, whatever happened to the other.
C13_EagerLoadsAreIndependent ==
    Done(Caller, "load_model_and_scaler")
        => /\ (snap.mc0 = None) => (is_model_loaded <=> snap.ms0 = "ok")
           /\ (snap.sc0 = None) => (is_scaler_loaded <=> snap.ss0 \in {"ok", "narrow"})

\* The invariants of a feature record that C14 names.
ViolatesRecordInvariant(raw) ==
    \/ raw.open <= 0 \/ raw.high <= 0 \/ raw.low <= 0 \/ raw.close <= 0
    \/ raw.volume < 0
    \/ raw.high < raw.low

\* C14: no CandleData is constructed from field values with a price <= 0, a
\* volume < 0 or high < low; a /predict body holding such a record is answered 422
\* and neither predict nor an accessor runs for it.
C14_InvalidRecordRejected ==
    /\ \A raw \in RawCandles : ViolatesRecordInvariant(raw) => ~CandleDataAccepts(raw)
    /\ (Done(Caller, "http_predict")
            /\ \E i \in 1..Len(data[Caller]) : ViolatesRecordInvariant(data[Caller][i]))
        => /\ res[Caller].http = 422
           /\ call[Caller].stages = <<>>
           /\ call[Caller].acc = 0
           /\ metrics.total_requests = 0

C14_Witness ==
    /\ Done(Caller, "http_predict")
    /\ Len(data[Caller]) = MIN_LENGTH
    /\ \E i \in 1..Len(data[Caller]) :
          /\ data[Caller][i].high < data[Caller][i].low
          /\ data[Caller][i].high > 0
          /\ data[Caller][i].open > 0
          /\ data[Caller][i].close > 0
          /\ data[Caller][i].volume >= 0
          /\ \A j \in 1..Len(data[Caller]) : j # i => data[Caller][j] \in Candles
    /\ res[Caller].http = 422

\* C19: every record of a body that /predict handles (every constructed CandleData)
\* has high at least open, low and close, and low at most open, high and close.
C19_HandledRecordsAreOrdered ==
    (Done(Caller, "http_predict") /\ res[Caller].http # 422)
        => \A i \in 1..Len(data[Caller]) :
              LET r == data[Caller][i]
              IN  /\ r.high >= r.open /\ r.high >= r.low /\ r.high >= r.close
                  /\ r.low <= r.open /\ r.low <= r.high /\ r.low <= r.close

\* C15: with the artifact files fixed, what predict returns for a record sequence
\* is a function of that sequence alone, whatever other predict calls ran before
\* it or run interleaved with it, failed or not.
C15_PredictionsAreIndependent ==
    \A t \in PairCallers :
        (Done(t, "predict") /\ Returned(t))
        => /\ res[t].ret.prediction = ExpectedPrediction(data[t])
           /\ res[t].ret.model_version = MODEL_VERSION
           /\ call[t].window = GetLastSequence(PrepareFeatures(data[t]))
           /\ call[t].tensor = << ScalerTransform(call[t].window) >>

\* Two predictions on different records ran interleaved (each loaded the artifacts
\* itself, the second load replacing the first) and both returned.
C15_Witness ==
    /\ Done(1, "predict") /\ Done(2, "predict")
    /\ Returned(1) /\ Returned(2)
    /\ data[1] # data[2]
    /\ res[1].ret.prediction # res[2].ret.prediction
    /\ model_cache.id = 2
    /\ scaler_cache.id = 2

\* The stages of predict by number: validate, extract features, select window,
\* normalize, reshape, run model, denormalize.
StageOrder == <<1, 2, 3, 4, 5, 6, 7>>

\* The uses of the artifacts in a successful prediction.
ArtifactCalls ==
    <<"get_scaler", "transform", "get_model", "predict", "get_scaler", "inverse_transform">>

IsPrefix(a, b) == Len(a) <= Len(b) /\ a = SubSeq(b, 1, Len(a))

\* C16: in every predict call the stages start in the fixed order, each at most
\* once, and the scaler is fetched before the model; a prediction that returns ran
\* all seven, with one transform, one model run on one tensor of shape
\* (1, LOOKBACK, n_features) and one inverse transform; once a stage has failed no
\* stage and no artifact call follows, and the call ends without a result.
C16_StagesRunInOrder ==
    [][ /\ IsPrefix(call'[Caller].stages, StageOrder)
        /\ IsPrefix(call'[Caller].calls, ArtifactCalls)
        /\ (pc[Caller] \in {"p198", "tp104"})
            => /\ call'[Caller].stages = call[Caller].stages
               /\ call'[Caller].calls = call[Caller].calls
               /\ pc'[Caller] \in {"tp104", "done", "h192"}
               /\ pc'[Caller] = "done" => (res'[Caller].status = "raised" /\ res'[Caller].ret = NoVal)
        /\ (Completes(Caller, "predict") /\ res'[Caller].status = "returned")
            => /\ call[Caller].stages = StageOrder
               /\ call[Caller].calls = ArtifactCalls
               /\ Len(call[Caller].tensor) = 1
               /\ Len(call[Caller].tensor[1]) = LOOKBACK
               /\ \A i \in 1..LOOKBACK : Len(call[Caller].tensor[1][i]) = N_FEATURES
      ]_vars

\* A prediction on more than LOOKBACK records returned; the model was loaded by it.
C16_Witness ==
    /\ Done(Caller, "predict")
    /\ Returned(Caller)
    /\ Len(data[Caller]) > LOOKBACK
    /\ call[Caller].stages = StageOrder
    /\ call[Caller].calls = ArtifactCalls
    /\ call[Caller].mreads = 1

\* C17: whatever FEATURES and TARGET are configured, the matrix handed to the
\* scaler has one column per configured feature, in the configured order, and the
\* column that carries the prediction is the position of TARGET in FEATURES.
C17_PipelineFollowsConfiguration ==
    (op[Caller] = "predict" /\ call[Caller].window # <<>>)
        => LET w == call[Caller].window
               d == data[Caller]
           IN  /\ \A i \in 1..Len(w) :
                     /\ Len(w[i]) = Len(settings.FEATURES)
                     /\ \A c \in 1..Len(w[i]) :
                           c <= Len(settings.FEATURES)
                           => w[i][c] = Float32(d[Len(d) - Len(w) + i][settings.FEATURES[c]])
               /\ Len(DummyArray(0)[1]) = Len(w[1])
               /\ TARGET_COLUMN = ColumnOf(settings.TARGET, settings.FEATURES)

\* The scaler a call that starts now will use was fitted on another number of
\* columns than the pipeline extracts.
ScalerMismatched(sn) == IF sn.sc0 # None THEN sn.sc0.kind = "narrow" ELSE sn.ss0 = "narrow"

\* C18: when the scaler expects another number of columns than the window has,
\* predict fails in the normalize stage with the scaler's error: no result is
\* returned, no later stage runs and the model is not invoked.
C18_WidthMismatchFailsAtNormalize ==
    /\ (Done(Caller, "predict") /\ Len(data[Caller]) >= LOOKBACK /\ ScalerMismatched(snap))
        => /\ res[Caller].status = "raised"
           /\ res[Caller].exc.msg = "n_features"
           /\ res[Caller].ret = NoVal
           /\ call[Caller].stages = <<1, 2, 3, 4>>
           /\ call[Caller].calls = <<"get_scaler", "transform">>
           /\ call[Caller].tensor = <<>>
    /\ (Done(Caller, "http_predict") /\ res[Caller].http # 422 /\ ScalerMismatched(snap))
        => /\ res[Caller].http # 200
           /\ res[Caller].ret = NoVal
           /\ call[Caller].tensor = <<>>

C18_Witness ==
    /\ Done(Caller, "predict")
    /\ Len(data[Caller]) = LOOKBACK
    /\ ScalerMismatched(snap)
    /\ res[Caller].exc.msg = "n_features"
    /\ call[Caller].stage = 4

WrapperLabels == {"tp84", "ts84", "tm84", "tp92", "ts92", "tm92", "tp104", "ts104", "tm104"}

\* What one decorated function logged during a call.
LogOf(t, name) == SelectSeq(call[t].log, LAMBDA e : e[2] = name)

\* A decorated function that ran was started once and ended once.
CalledOnce(t, name) ==
    LogOf(t, name) \in { <<>>, << <<"start", name>>, <<"complete", name>> >>,
                         << <<"start", name>>, <<"error", name>> >> }

\* C21: a step of track_time's wrapper changes nothing but the log: it hands on
\* the wrapped function's result or exception as it is, and each wrapped function
\* runs once per call; the decorated pipeline and the undecorated one, run on the
\* same records from the same state, end with the same outcome, the same stages
\* and artifact calls, and the same artifact-cache state.
C21_TimingIsObservational ==
    [][ /\ \A t \in PairCallers :
              (pc[t] \in WrapperLabels /\ pc'[t] # pc[t])
              => /\ cacheVars' = cacheVars
                 /\ metrics' = metrics
                 /\ modelReads' = modelReads
                 /\ scalerReads' = scalerReads
                 /\ data' = data
                 /\ call'[t].stages = call[t].stages
                 /\ call'[t].calls = call[t].calls
                 /\ pc[t] \in {"tp84", "ts84", "tm84", "ts92", "tm92"} => local'[t] = local[t]
                 /\ pc[t] = "tp92"
                      => (res'[t].status = "returned" /\ res'[t].ret = local[t].ret)
                 /\ pc[t] \in {"ts104", "tm104"}
                      => (local'[t] = local[t] /\ pc'[t] = "p198")
                 /\ pc[t] = "tp104"
                      => (res'[t].status = "raised" /\ res'[t].exc = local[t].exc)
        /\ Completes(Caller, "predict")
            => /\ CalledOnce(Caller, "full_inference_pipeline")'
               /\ CalledOnce(Caller, "scale_features")'
               /\ CalledOnce(Caller, "model_prediction")'
               /\ Len(LogOf(Caller, "full_inference_pipeline")') = 2
        /\ Completes(PlainCaller, "predict_plain")
            => /\ res'[PlainCaller] = res'[Caller]
               /\ call'[PlainCaller].stages = call'[Caller].stages
               /\ call'[PlainCaller].calls = call'[Caller].calls
               /\ call'[PlainCaller].window = call'[Caller].window
               /\ call'[PlainCaller].tensor = call'[Caller].tensor
               /\ model_cache'.kind = snap.mc0.kind
               /\ scaler_cache'.kind = snap.sc0.kind
               /\ load_attempted' = snap.la0
      ]_vars

\* Both pipelines ran on LOOKBACK records against a scaler of the wrong width:
\* the scaler's error went through two wrappers and came out as it was.
C21_Witness ==
    /\ Done(PlainCaller, "predict_plain")
    /\ Len(data[Caller]) = LOOKBACK
    /\ res[Caller].exc = Exc("ValueError", "n_features", "none")
    /\ res[PlainCaller] = res[Caller]
    /\ call[Caller].log = << <<"start", "full_inference_pipeline">>, <<"start", "scale_features">>,
                             <<"error", "scale_features">>, <<"error", "full_inference_pipeline">> >>
    /\ call[PlainCaller].log = <<>>

\* C22: parse_csv_to_candles either returns one candle per data row, in row order,
\* at least the minimum number of them, or raises ValueError and returns nothing.
C22_CsvAllOrNothing ==
    Done(Caller, "parse_csv_to_candles")
        => LET rows == data[Caller].rows
               out == res[Caller].ret.candles
           IN  \/ /\ Returned(Caller)
                  /\ Len(out) = Len(rows)
                  /\ Len(out) >= CSV_MIN_ROWS
                  /\ \A i \in 1..Len(rows) : RowOf(out[i]) = rows[i]
               \/ /\ res[Caller].status = "raised"
                  /\ res[Caller].exc.type = "ValueError"
                  /\ out = <<>>

\* C23: the /predict handler reaches line 181, and the pipeline runs, only with
\* both artifacts loaded; a request that found one unloaded has called
\* load_model_and_scaler() first (its two accessor calls), and when that failed
\* no part of the pipeline ran for the request.
C23_PipelineRunsOnlyWhenLoaded ==
    /\ pc[Caller] = "h181"
        => /\ is_model_loaded /\ is_scaler_loaded
           /\ call[Caller].acc = IF snap.mc0 = None \/ snap.sc0 = None THEN 2 ELSE 0
    /\ (op[Caller] = "http_predict" /\ call[Caller].log # <<>>)
        => (is_model_loaded /\ is_scaler_loaded)
    /\ (Done(Caller, "http_predict") /\ res[Caller].exc.type = "HTTPException")
        => /\ call[Caller].log = <<>>
           /\ call[Caller].stages = <<>>
           /\ call[Caller].calls = <<>>

\* The model was loaded at the request's start and the scaler was not; the load
\* failed and the pipeline did not run.
C23_Witness ==
    /\ Done(Caller, "http_predict")
    /\ snap.mc0 # None
    /\ snap.sc0 = None
    /\ res[Caller].exc.type = "HTTPException"
    /\ call[Caller].log = <<>>
    /\ call[Caller].sreads = 1

Counters == {"total_requests", "total_predictions", "total_errors", "total_cold_starts"}

\* C24: over any sequence of handled /predict requests no counter decreases;
\* the step that answers a request adds exactly one to total_requests and adds
\* one to total_predictions exactly when the answer is 200, and no other step
\* changes either; total_predictions <= total_requests,
\* total_errors >= total_requests - total_predictions, and total_requests is the
\* number of requests that entered the handler, less the one being handled.
C24_CountersFollowRequests ==
    [][ /\ \A c \in Counters : metrics'[c] >= metrics[c]
        /\ IF op[Caller] = "http_predict" /\ pc[Caller] \in {"h183", "h192"}
           THEN /\ metrics'.total_requests = metrics.total_requests + 1
                /\ metrics'.total_predictions
                     = metrics.total_predictions + (IF res'[Caller].http = 200 THEN 1 ELSE 0)
           ELSE /\ metrics'.total_requests = metrics.total_requests
                /\ metrics'.total_predictions = metrics.total_predictions
        /\ metrics'.total_predictions <= metrics'.total_requests
        /\ metrics'.total_errors >= metrics'.total_requests - metrics'.total_predictions
        /\ metrics'.total_requests
             = IF op'[Caller] = "http_predict" /\ pc'[Caller] \notin {"h165", "done"}
               THEN hist'.handled - 1 ELSE hist'.handled
      ]_vars

\* Two requests were handled: one succeeded, one failed and added more than one
\* to total_errors.
C24_Witness ==
    /\ Done(Caller, "http_predict")
    /\ hist.handled = 2
    /\ metrics.total_requests = 2
    /\ metrics.total_predictions = 1
    /\ metrics.total_errors > 1

====
